---- MODULE Spec2Model ----
(***************************************************************************)
(* A model of the hexagonal chess rules engine (crate hex-chess-lib):      *)
(* coordinates (coord.rs), piece shapes (piece.rs), the board and its      *)
(* legality pipeline (board.rs) and the game session (game.rs), and of its *)
(* two callers: the graphical front-end (hex-chess-bevy) and the console.  *)
(***************************************************************************)
EXTENDS Integers, Sequences, FiniteSets, TLC

VARIABLES
    obj,       \* what the caller constructed: "Game", a bare "HexBoard" or a "Piece"
    turn,      \* Game.turn
    board,     \* Game.board / a HexBoard: [pieces, checkers]
    finished,  \* Game.finished
    pc,        \* "idle": no call in progress; "returned": a call has just returned
    call,      \* the last call: [op, from, to] and what stood on from and to
    result,    \* what the last call returned
    accepted,  \* number of Game::move_piece calls that returned Ok so far
    piece_sprites, \* the front-end's PieceSprites: HashMap<Coord, Entity>
    select     \* the front-end's SelectedHex: [hover, selected]

vars == <<obj, turn, board, finished, pc, call, result, accepted, piece_sprites, select>>

----------------------------------------------------------------------------
(* Bounds of the model *)

\* accepted moves explored in one game
MaxMoves == 3
\* pieces standing on a bare board built with place()
MaxPlaced == 2
\* largest |q| and |r| of the cells handed to Piece::verify_move
MaxCoord == 3
\* mouse button events delivered to the front-end in one frame
MaxEvents == 2
\* tokens in one input line of the console
MaxLine == 7

----------------------------------------------------------------------------
(* coord.rs *)

Abs(x) == IF x < 0 THEN -x ELSE x

Max(a, b) == IF a >= b THEN a ELSE b

Min(a, b) == IF a <= b THEN a ELSE b

\* Rust's i32 division truncates toward zero (\div floors)
TruncDiv(a, b) ==
    IF (a >= 0) = (b > 0) THEN Abs(a) \div Abs(b) ELSE -(Abs(a) \div Abs(b))

new(q, r) == <<q, r>>

\* s() computed from q alone
s_forgets_r(c) == -c[1]

s(c) == -c[1] - c[2]

length(c) == Max(Abs(c[1]), Max(Abs(c[2]), Abs(s(c))))

norm_squared(c) == c[1] * c[1] + c[2] * c[2] + c[1] * c[2]

reflect_q(c) == new(c[1], s(c))

is_axis(c) ==
    \/ (c[1] = 0 /\ c[2] # 0 /\ s(c) # 0)
    \/ (c[2] = 0 /\ c[1] # 0 /\ s(c) # 0)
    \/ (s(c) = 0 /\ c[1] # 0 /\ c[2] # 0)

Add(a, b) == new(a[1] + b[1], a[2] + b[2])

Sub(a, b) == new(a[1] - b[1], a[2] - b[2])

\* impl Div for Coord: componentwise
DivCoord(a, b) == new(TruncDiv(a[1], b[1]), TruncDiv(a[2], b[2]))

\* impl Div<i32> for Coord
DivScalar(a, k) == new(TruncDiv(a[1], k), TruncDiv(a[2], k))

\* impl Mul<i32> for Coord
MulScalar(a, k) == new(a[1] * k, a[2] * k)

\* Coord * Coord, used by verify_bishop; componentwise like Div for Coord
MulCoord(a, b) == new(a[1] * b[1], a[2] * b[2])

----------------------------------------------------------------------------
(* piece.rs *)

White == "White"

Black == "Black"

Teams == {White, Black}

Names == {"King", "Queen", "Bishop", "Knight", "Rook", "Pawn"}

flip(team) == IF team = White THEN Black ELSE White

\* `team as usize`, shifted by one for 1-based tuples
TeamIndex(team) == IF team = White THEN 1 ELSE 2

Piece(name, team) == [name |-> name, team |-> team]

Pieces == {Piece(n, t) : n \in Names, t \in Teams}

flip_team(piece) == Piece(piece.name, flip(piece.team))

\* Option<MovesPossible>
None == [some |-> FALSE]

MovesPossible(m, c) == [some |-> TRUE, move |-> m, capture |-> c]

PAWN_DOUBLES ==
    { new(-4, 1), new(-3, 1), new(-2, 1), new(-1, 1), new(0, 1),
      new(1, 0), new(1, -1), new(1, -2), new(1, -3) }

\* verify_pawn letting the forward step capture too
verify_pawn_forward_captures(f, t) ==
    IF f[1] = t[1] /\ (f[2] + 1 = t[2] \/ (t \in PAWN_DOUBLES /\ f[2] + 2 = t[2]))
    THEN MovesPossible(TRUE, TRUE)
    ELSE IF (f[1] + 1 = t[1] /\ f[2] = t[2]) \/ (f[1] - 1 = t[1] /\ f[2] + 1 = t[2])
         THEN MovesPossible(FALSE, TRUE)
         ELSE None

verify_pawn(f, t) ==
    IF f[1] = t[1] /\ (f[2] + 1 = t[2] \/ (t \in PAWN_DOUBLES /\ f[2] + 2 = t[2]))
    THEN MovesPossible(TRUE, FALSE)
    ELSE IF (f[1] + 1 = t[1] /\ f[2] = t[2]) \/ (f[1] - 1 = t[1] /\ f[2] + 1 = t[2])
         THEN MovesPossible(FALSE, TRUE)
         ELSE None

MOVEMENTS ==
    << new(1, -2), new(2, -1), new(1, 1), new(-1, 2), new(-2, 1), new(-1, -1) >>

\* verify_bishop without the test that both quotients are equal
verify_bishop_unequal_factors(f, t) ==
    LET v == Sub(t, f)
    IN  IF \E i \in 1..Len(MOVEMENTS) :
               LET m == MOVEMENTS[i]
                   k == DivCoord(v, m)
               IN  MulCoord(k, m) = v
        THEN MovesPossible(TRUE, TRUE)
        ELSE None

verify_bishop(f, t) ==
    LET v == Sub(t, f)
    IN  IF \E i \in 1..Len(MOVEMENTS) :
               LET m == MOVEMENTS[i]
                   k == DivCoord(v, m)
               IN  k[1] = k[2] /\ MulCoord(k, m) = v
        THEN MovesPossible(TRUE, TRUE)
        ELSE None

\* verify_rook looking at q and r only
verify_rook_ignores_s(f, t) ==
    IF f[1] = t[1] \/ f[2] = t[2]
    THEN MovesPossible(TRUE, TRUE)
    ELSE None

verify_rook(f, t) ==
    IF f[1] = t[1] \/ f[2] = t[2] \/ s(f) = s(t)
    THEN MovesPossible(TRUE, TRUE)
    ELSE None

\* verify_knight without the absolute value
verify_knight_signed(f, t) ==
    LET v == Sub(t, f)
    IN  IF v[1] * v[2] * s(v) = 6 THEN MovesPossible(TRUE, TRUE) ELSE None

verify_knight(f, t) ==
    LET v == Sub(t, f)
    IN  IF Abs(v[1] * v[2] * s(v)) = 6 THEN MovesPossible(TRUE, TRUE) ELSE None

\* verify_king without the unit diagonals
verify_king_adjacent_only(f, t) ==
    LET v == Sub(t, f)
    IN  IF length(v) = 1 THEN MovesPossible(TRUE, TRUE) ELSE None

verify_king(f, t) ==
    LET v == Sub(t, f)
    IN  IF length(v) = 1
           \/ (norm_squared(v) % 3 = 0 /\ TruncDiv(norm_squared(v), 3) = 1)
        THEN MovesPossible(TRUE, TRUE)
        ELSE None

\* Option::or
OptionOr(a, b) == IF a.some THEN a ELSE b

\* Name::verify_move
Name_verify_move(name, f, t) ==
    CASE name = "Pawn" -> verify_pawn(f, t)
      [] name = "Bishop" -> verify_bishop(f, t)
      [] name = "Rook" -> verify_rook(f, t)
      [] name = "Knight" -> verify_knight(f, t)
      [] name = "Queen" -> OptionOr(verify_rook(f, t), verify_bishop(f, t))
      [] name = "King" -> verify_king(f, t)

\* Piece::verify_move using the same frame for both teams
verify_move_unreflected(piece, f, t) == Name_verify_move(piece.name, f, t)

\* Piece::verify_move: Black's coordinates are reflected first
verify_move(piece, f, t) ==
    IF piece.team = Black
    THEN Name_verify_move(piece.name, reflect_q(f), reflect_q(t))
    ELSE Name_verify_move(piece.name, f, t)

----------------------------------------------------------------------------
(* board.rs *)

N == 5

STARTING_PIECES ==
    << <<new(0, -5), Piece("Bishop", White)>>,
       <<new(0, -4), Piece("Bishop", White)>>,
       <<new(0, -3), Piece("Bishop", White)>>,
       <<new(1, -5), Piece("King", White)>>,
       <<new(-1, -4), Piece("Queen", White)>>,
       <<new(-2, -3), Piece("Knight", White)>>,
       <<new(2, -5), Piece("Knight", White)>>,
       <<new(-3, -2), Piece("Rook", White)>>,
       <<new(3, -5), Piece("Rook", White)>>,
       <<new(4, -5), Piece("Pawn", White)>>,
       <<new(3, -4), Piece("Pawn", White)>>,
       <<new(2, -3), Piece("Pawn", White)>>,
       <<new(1, -2), Piece("Pawn", White)>>,
       <<new(0, -1), Piece("Pawn", White)>>,
       <<new(-1, -1), Piece("Pawn", White)>>,
       <<new(-2, -1), Piece("Pawn", White)>>,
       <<new(-3, -1), Piece("Pawn", White)>>,
       <<new(-4, -1), Piece("Pawn", White)>> >>

\* reflect_team forgetting to flip the team
reflect_team_keeps_team(hexes) ==
    [i \in 1..Len(hexes) |-> <<reflect_q(hexes[i][1]), hexes[i][2]>>]

reflect_team(hexes) ==
    [i \in 1..Len(hexes) |-> <<reflect_q(hexes[i][1]), flip_team(hexes[i][2])>>]

\* Results: Ok(()), Err(e), or a panic that unwinds out of the call
Ok == [kind |-> "Ok"]

Err(e) == [kind |-> "Err", err |-> e]

Panic == [kind |-> "Panic"]

\* GetError::NoPiece(c)
GetError_NoPiece(c) == [tag |-> "NoPiece", c |-> c]

\* MoveErrorType::NoPiece(GetError), via #[from]
MoveErrorType_NoPiece(e) == [tag |-> "NoPiece", source |-> e]

InvalidMove(piece) == [tag |-> "InvalidMove", piece |-> piece]

CollisionOnPath(piece) == [tag |-> "CollisionOnPath", piece |-> piece]

MoveError(err_type, from, to) == [err_type |-> err_type, from |-> from, to |-> to]

\* HashMap::insert / HashMap::remove on the piece map
Insert(pieces, c, piece) ==
    [x \in (DOMAIN pieces) \cup {c} |-> IF x = c THEN piece ELSE pieces[x]]

Remove(pieces, c) == [x \in (DOMAIN pieces) \ {c} |-> pieces[x]]

\* HashMap::extend: insert the entries in order, later ones overwriting
RECURSIVE Extend(_, _)
Extend(pieces, hexes) ==
    IF hexes = <<>> THEN pieces
    ELSE Extend(Insert(pieces, Head(hexes)[1], Head(hexes)[2]), Tail(hexes))

\* HexBoard::new
HexBoard_new == [pieces |-> <<>>, checkers |-> << <<>>, <<>> >>]

new_initialize ==
    [HexBoard_new EXCEPT
        !.pieces = Extend(Extend(HexBoard_new.pieces, STARTING_PIECES),
                          reflect_team(STARTING_PIECES))]

place(b, c, piece) == [b EXCEPT !.pieces = Insert(b.pieces, c, piece)]

contains_key(b, c) == c \in DOMAIN b.pieces

get(b, c) == IF contains_key(b, c) THEN Ok ELSE Err(GetError_NoPiece(c))

\* (x as f32).sqrt() as i32, for the small non-negative x that occur
Isqrt(x) == CHOOSE k \in 0..x : k * k <= x /\ (k + 1) * (k + 1) > x

\* the step count taken as the hex distance for every move
axial_len_always_length(v) == length(v)

\* the step count computed by collides
axial_len(v) ==
    IF is_axis(v) THEN length(v) ELSE Isqrt(TruncDiv(norm_squared(v), 3))

\* collides divides by axial_len: a zero step count panics
collides_panics(f, t) == axial_len(Sub(t, f)) = 0

\* collides walking up to and including the destination
collides_counts_destination(b, f, t) ==
    LET v == Sub(t, f)
        len == axial_len(v)
        uv == DivScalar(v, len)
    IN  \E n \in 1..len : contains_key(b, Add(f, MulScalar(uv, n)))

collides(b, f, t) ==
    LET v == Sub(t, f)
        len == axial_len(v)
        uv == DivScalar(v, len)
    IN  \E n \in 1..(len - 1) : contains_key(b, Add(f, MulScalar(uv, n)))

\* teleport inserting at `to` without removing the piece at `from`
teleport_copies(b, from, to) ==
    [b EXCEPT !.pieces = Insert(b.pieces, to, b.pieces[from])]

\* teleport putting what stood on `to` back on `from` (a swap, not a capture)
teleport_swaps(b, from, to) ==
    [b EXCEPT !.pieces =
        IF to \in DOMAIN b.pieces /\ to # from
        THEN Insert(Insert(b.pieces, to, b.pieces[from]), from, b.pieces[to])
        ELSE Insert(Remove(b.pieces, from), to, b.pieces[from])]

teleport(b, from, to) ==
    [b EXCEPT !.pieces = Insert(Remove(b.pieces, from), to, b.pieces[from])]

\* the bounds test off by one ring
in_bounds_off_by_one(to) ==
    ~(Abs(to[1]) > N + 1 \/ Abs(to[2]) > N + 1 \/ Abs(s(to)) > N + 1)

in_bounds(to) == ~(Abs(to[1]) > N \/ Abs(to[2]) > N \/ Abs(s(to)) > N)

\* the occupancy test without the own-team clause
occupancy_rejects_ignores_team(b, piece, possible, to) ==
    \/ (~possible.capture /\ contains_key(b, to))
    \/ (~possible.move /\ ~contains_key(b, to))

\* the occupancy test of unchecked_can_move
occupancy_rejects(b, piece, possible, to) ==
    \/ (~possible.capture /\ contains_key(b, to))
    \/ (possible.capture /\ contains_key(b, to) /\ b.pieces[to].team = piece.team)
    \/ (~possible.move /\ ~contains_key(b, to))

\* unchecked_can_move walking the path before it looks at the destination
unchecked_can_move_collision_first(b, piece, from, to) ==
    IF ~in_bounds(to) THEN Err(MoveError(InvalidMove(piece), from, to))
    ELSE LET possible == verify_move(piece, from, to)
         IN  IF ~possible.some THEN Err(MoveError(InvalidMove(piece), from, to))
             ELSE IF collides_panics(from, to) THEN Panic
                  ELSE IF collides(b, from, to)
                       THEN Err(MoveError(CollisionOnPath(piece), from, to))
                       ELSE IF occupancy_rejects(b, piece, possible, to)
                            THEN Err(MoveError(InvalidMove(piece), from, to))
                            ELSE Ok

unchecked_can_move(b, piece, from, to) ==
    IF ~in_bounds(to) THEN Err(MoveError(InvalidMove(piece), from, to))
    ELSE LET possible == verify_move(piece, from, to)
         IN  IF ~possible.some THEN Err(MoveError(InvalidMove(piece), from, to))
             ELSE IF occupancy_rejects(b, piece, possible, to)
                  THEN Err(MoveError(InvalidMove(piece), from, to))
                  ELSE IF collides_panics(from, to) THEN Panic
                       ELSE IF collides(b, from, to)
                            THEN Err(MoveError(CollisionOnPath(piece), from, to))
                            ELSE Ok

\* update_checkers without the early return: for a king of each team, one
\* entry (the king's cell, as the code pushes) per enemy piece that could
\* capture it
update_checkers_runs(b) ==
    LET kings(team) ==
            { k \in DOMAIN b.pieces : b.pieces[k] = Piece("King", team) }
        hits(k) ==
            Cardinality({ e \in DOMAIN b.pieces :
                            /\ b.pieces[e].team = flip(b.pieces[k].team)
                            /\ unchecked_can_move(b, b.pieces[e], e, k).kind = "Ok" })
        entry(team) ==
            IF kings(team) = {} THEN b.checkers[TeamIndex(team)]
            ELSE LET k == CHOOSE k \in kings(team) : TRUE
                 IN  [i \in 1..hits(k) |-> k]
    IN  [b EXCEPT !.checkers = <<entry(White), entry(Black)>>]

\* update_checkers returns at once; the code after the return never runs
update_checkers(b) == b

\* can_move naming the destination in its NoPiece error
can_move_reports_to(b, from, to) ==
    IF ~contains_key(b, from)
    THEN Err(MoveError(MoveErrorType_NoPiece(GetError_NoPiece(to)), from, to))
    ELSE LET piece == b.pieces[from]
         IN  IF b.checkers[TeamIndex(piece.team)] = <<>>
             THEN unchecked_can_move(b, piece, from, to)
             ELSE LET projected == update_checkers(teleport(b, from, to))
                  IN  IF projected.checkers[TeamIndex(piece.team)] = <<>>
                      THEN Ok
                      ELSE Err(MoveError(InvalidMove(piece), from, to))

can_move(b, from, to) ==
    IF ~contains_key(b, from)
    THEN Err(MoveError(MoveErrorType_NoPiece(GetError_NoPiece(from)), from, to))
    ELSE LET piece == b.pieces[from]
         IN  IF b.checkers[TeamIndex(piece.team)] = <<>>
             THEN unchecked_can_move(b, piece, from, to)
             ELSE LET projected == update_checkers(teleport(b, from, to))
                  IN  IF projected.checkers[TeamIndex(piece.team)] = <<>>
                      THEN Ok
                      ELSE Err(MoveError(InvalidMove(piece), from, to))

\* move_piece relocating the piece before it looks at can_move's answer
move_piece_teleports_first(b, from, to) ==
    LET r == can_move(b, from, to)
    IN  IF ~contains_key(b, from) THEN [res |-> r, board |-> b]
        ELSE [res |-> r, board |-> update_checkers(teleport(b, from, to))]

\* HexBoard::move_piece: the result and the board it leaves
move_piece(b, from, to) ==
    LET r == can_move(b, from, to)
    IN  IF r.kind # "Ok" THEN [res |-> r, board |-> b]
        ELSE [res |-> Ok, board |-> update_checkers(teleport(b, from, to))]

----------------------------------------------------------------------------
(* game.rs *)

\* GameError::PieceError(GetError), via #[from]
PieceError(e) == [tag |-> "PieceError", source |-> e]

TurnError(given, real) == [tag |-> "TurnError", given |-> given, real |-> real]

\* GameError::MoveError(MoveError), via #[from]
GameError_MoveError(e) == [tag |-> "MoveError", source |-> e]

\* HexBoard::is_checkmated(team): the team is in check and none of its moves
\* is accepted (can_move accepts only moves that clear the check)
is_checkmated(b, team) ==
    /\ b.checkers[TeamIndex(team)] # <<>>
    /\ \A from \in DOMAIN b.pieces :
          b.pieces[from].team = team =>
             \A q \in (-N)..N, r \in (-N)..N :
                can_move(b, from, new(q, r)).kind # "Ok"

\* Game::new
Game_new == [turn |-> White, board |-> new_initialize, finished |-> FALSE]

\* Game::move_piece without the turn check
Game_move_piece_any_team(g, from, to) ==
    IF get(g.board, from).kind # "Ok"
    THEN [res |-> Err(PieceError(get(g.board, from).err)), game |-> g]
    ELSE LET m == move_piece(g.board, from, to)
         IN  IF m.res.kind = "Panic" THEN [res |-> Panic, game |-> g]
             ELSE IF m.res.kind = "Err"
             THEN [res |-> Err(GameError_MoveError(m.res.err)),
                   game |-> [g EXCEPT !.board = m.board]]
             ELSE [res |-> Ok,
                   game |-> [turn |-> flip(g.turn),
                             board |-> m.board,
                             finished |-> is_checkmated(m.board, flip(g.turn))]]

\* Game::move_piece flipping the turn before the board has accepted the move
Game_move_piece_flips_early(g, from, to) ==
    IF get(g.board, from).kind # "Ok"
    THEN [res |-> Err(PieceError(get(g.board, from).err)), game |-> g]
    ELSE LET piece == g.board.pieces[from]
         IN  IF piece.team # g.turn
             THEN [res |-> Err(TurnError(piece.team, g.turn)), game |-> g]
             ELSE LET m == move_piece(g.board, from, to)
                  IN  IF m.res.kind = "Panic" THEN [res |-> Panic, game |-> g]
                      ELSE IF m.res.kind = "Err"
                      THEN [res |-> Err(GameError_MoveError(m.res.err)),
                            game |-> [g EXCEPT !.board = m.board,
                                               !.turn = flip(g.turn)]]
                      ELSE [res |-> Ok,
                            game |-> [turn |-> flip(g.turn),
                                      board |-> m.board,
                                      finished |-> is_checkmated(m.board, flip(g.turn))]]

\* Game::move_piece refusing every call once the game is finished
Game_move_piece_stops_when_finished(g, from, to) ==
    IF g.finished
    THEN [res |-> Err(PieceError(GetError_NoPiece(from))), game |-> g]
    ELSE IF get(g.board, from).kind # "Ok"
    THEN [res |-> Err(PieceError(get(g.board, from).err)), game |-> g]
    ELSE LET piece == g.board.pieces[from]
         IN  IF piece.team # g.turn
             THEN [res |-> Err(TurnError(piece.team, g.turn)), game |-> g]
             ELSE LET m == move_piece(g.board, from, to)
                  IN  IF m.res.kind = "Panic" THEN [res |-> Panic, game |-> g]
                      ELSE IF m.res.kind = "Err"
                      THEN [res |-> Err(GameError_MoveError(m.res.err)),
                            game |-> [g EXCEPT !.board = m.board]]
                      ELSE [res |-> Ok,
                            game |-> [turn |-> flip(g.turn),
                                      board |-> m.board,
                                      finished |-> is_checkmated(m.board, flip(g.turn))]]

\* Game::move_piece asking the board before it looks at the turn
Game_move_piece_board_first(g, from, to) ==
    IF get(g.board, from).kind # "Ok"
    THEN [res |-> Err(PieceError(get(g.board, from).err)), game |-> g]
    ELSE LET piece == g.board.pieces[from]
             c == can_move(g.board, from, to)
         IN  IF c.kind = "Panic" THEN [res |-> Panic, game |-> g]
             ELSE IF c.kind = "Err"
             THEN [res |-> Err(GameError_MoveError(c.err)), game |-> g]
             ELSE IF piece.team # g.turn
             THEN [res |-> Err(TurnError(piece.team, g.turn)), game |-> g]
             ELSE LET m == move_piece(g.board, from, to)
                  IN  [res |-> Ok,
                       game |-> [turn |-> flip(g.turn),
                                 board |-> m.board,
                                 finished |-> is_checkmated(m.board, flip(g.turn))]]

\* Game::move_piece: the result and the game it leaves
Game_move_piece(g, from, to) ==
    IF get(g.board, from).kind # "Ok"
    THEN [res |-> Err(PieceError(get(g.board, from).err)), game |-> g]
    ELSE LET piece == g.board.pieces[from]
         IN  IF piece.team # g.turn
             THEN [res |-> Err(TurnError(piece.team, g.turn)), game |-> g]
             ELSE LET m == move_piece(g.board, from, to)
                  IN  IF m.res.kind = "Panic" THEN [res |-> Panic, game |-> g]
                      ELSE IF m.res.kind = "Err"
                      THEN [res |-> Err(GameError_MoveError(m.res.err)),
                            game |-> [g EXCEPT !.board = m.board]]
                      ELSE [res |-> Ok,
                            game |-> [turn |-> flip(g.turn),
                                      board |-> m.board,
                                      finished |-> is_checkmated(m.board, flip(g.turn))]]

----------------------------------------------------------------------------
(* hex-chess-bevy/src/main.rs: the resources of the graphical front-end *)

\* Option<Coord>
NoCoord == [some |-> FALSE]

SomeCoord(c) == [some |-> TRUE, c |-> c]

\* SelectedHex::new
SelectedHex_new == [hover |-> NoCoord, selected |-> NoCoord]

\* init_resource::<PieceSprites>(): an empty map from cells to sprite entities
PieceSprites_default == <<>>

\* const N of the front-end: the radius of the board it draws
main_N == 5

\* the cells setup walks: q in -N..=N, r in max(-N, -q-N)..=min(N, -q+N)
setup_cells ==
    UNION { { new(q, r) : r \in Max(-main_N, -q - main_N)..Min(main_N, -q + main_N) } :
            q \in (-main_N)..main_N }

\* setup: one sprite entity per walked cell on which game.board.get succeeds;
\* an entity is named by the cell it was spawned on
setup(g, sprites) ==
    [c \in (DOMAIN sprites) \cup {x \in setup_cells : get(g.board, x).kind = "Ok"} |->
        IF c \in setup_cells /\ get(g.board, c).kind = "Ok" THEN c ELSE sprites[c]]

\* a submitted move that Game::move_piece accepted
IsAccepted(sent) == sent.res.kind = "Ok"

\* the resources piece_click_system works on, the moves it submits while
\* handling an event with their results, and whether an unwrap has panicked
Resources(g, sprites, sel) ==
    [game |-> g, piece_sprites |-> sprites, select |-> sel,
     submitted |-> <<>>, panicked |-> FALSE]

\* left_pressed reading the mover's sprite with get, leaving its old entry in
\* the map
left_pressed_copies_sprite(st, hex_pos) ==
    LET g == st.game
    IN  IF get(g.board, hex_pos).kind = "Ok" /\ g.board.pieces[hex_pos].team = g.turn
        THEN [st EXCEPT !.select.selected = SomeCoord(hex_pos)]
        ELSE IF ~st.select.selected.some THEN st
        ELSE LET from == st.select.selected.c
                 out == Game_move_piece(g, from, hex_pos)
                 sent == Append(st.submitted, [from |-> from, to |-> hex_pos, res |-> out.res])
             IN  IF out.res.kind = "Panic"
                 THEN [st EXCEPT !.submitted = sent, !.panicked = TRUE]
                 ELSE IF out.res.kind = "Err"
                 THEN [st EXCEPT !.game = out.game, !.submitted = sent]
                 ELSE IF from \notin DOMAIN st.piece_sprites
                 THEN [st EXCEPT !.game = out.game, !.submitted = sent, !.panicked = TRUE]
                 ELSE LET entity == st.piece_sprites[from]
                          removed == st.piece_sprites
                          cleared == IF hex_pos \in DOMAIN removed
                                     THEN Remove(removed, hex_pos)
                                     ELSE removed
                      IN  [st EXCEPT !.game = out.game,
                                     !.submitted = sent,
                                     !.piece_sprites = Insert(cleared, hex_pos, entity),
                                     !.select.selected = NoCoord]

\* left_pressed keeping the selection after an accepted move
left_pressed_keeps_selection(st, hex_pos) ==
    LET g == st.game
    IN  IF get(g.board, hex_pos).kind = "Ok" /\ g.board.pieces[hex_pos].team = g.turn
        THEN [st EXCEPT !.select.selected = SomeCoord(hex_pos)]
        ELSE IF ~st.select.selected.some THEN st
        ELSE LET from == st.select.selected.c
                 out == Game_move_piece(g, from, hex_pos)
                 sent == Append(st.submitted, [from |-> from, to |-> hex_pos, res |-> out.res])
             IN  IF out.res.kind = "Panic"
                 THEN [st EXCEPT !.submitted = sent, !.panicked = TRUE]
                 ELSE IF out.res.kind = "Err"
                 THEN [st EXCEPT !.game = out.game, !.submitted = sent]
                 ELSE IF from \notin DOMAIN st.piece_sprites
                 THEN [st EXCEPT !.game = out.game, !.submitted = sent, !.panicked = TRUE]
                 ELSE LET entity == st.piece_sprites[from]
                          removed == Remove(st.piece_sprites, from)
                          cleared == IF hex_pos \in DOMAIN removed
                                     THEN Remove(removed, hex_pos)
                                     ELSE removed
                      IN  [st EXCEPT !.game = out.game,
                                     !.submitted = sent,
                                     !.piece_sprites = Insert(cleared, hex_pos, entity)]

\* the body of the event loop for one left-button press, the cursor on hex_pos
left_pressed(st, hex_pos) ==
    LET g == st.game
    IN  IF get(g.board, hex_pos).kind = "Ok" /\ g.board.pieces[hex_pos].team = g.turn
        THEN [st EXCEPT !.select.selected = SomeCoord(hex_pos)]
        ELSE IF ~st.select.selected.some THEN st
        ELSE LET from == st.select.selected.c
                 out == Game_move_piece(g, from, hex_pos)
                 sent == Append(st.submitted, [from |-> from, to |-> hex_pos, res |-> out.res])
             IN  IF out.res.kind = "Panic"
                 THEN [st EXCEPT !.submitted = sent, !.panicked = TRUE]
                 ELSE IF out.res.kind = "Err"
                 THEN [st EXCEPT !.game = out.game, !.submitted = sent]
                 ELSE IF from \notin DOMAIN st.piece_sprites
                 THEN [st EXCEPT !.game = out.game, !.submitted = sent, !.panicked = TRUE]
                 ELSE LET entity == st.piece_sprites[from]
                          removed == Remove(st.piece_sprites, from)
                          cleared == IF hex_pos \in DOMAIN removed
                                     THEN Remove(removed, hex_pos)
                                     ELSE removed
                      IN  [st EXCEPT !.game = out.game,
                                     !.submitted = sent,
                                     !.piece_sprites = Insert(cleared, hex_pos, entity),
                                     !.select.selected = NoCoord]

\* one turn of `for event in mouse_button_events.iter()`: only a pressed left
\* button acts
mouse_button_event(st, hex_pos, event) ==
    IF event = "LeftPressed" THEN left_pressed(st, hex_pos) ELSE st

----------------------------------------------------------------------------
(* src/main.rs: the console front-end *)

\* An input line is a sequence of tokens: an integer literal, the separators
\* "->" and ",", a blank " ", and "x" for any other text.

\* the integer literals that occur, with the i32 each one denotes
Literals == ("0" :> 0) @@ ("-1" :> -1)

\* str::splitn(2, sep): the text before the first sep and everything after
\* it, or the whole text when sep does not occur
splitn2(text, sep) ==
    IF \E i \in DOMAIN text : text[i] = sep
    THEN LET i == CHOOSE k \in DOMAIN text :
                     text[k] = sep /\ \A j \in 1..(k - 1) : text[j] # sep
         IN  << SubSeq(text, 1, i - 1), SubSeq(text, i + 1, Len(text)) >>
    ELSE << text >>

\* str::trim: without the blanks at either end
trim(text) ==
    IF \A i \in DOMAIN text : text[i] = " " THEN <<>>
    ELSE LET first == CHOOSE k \in DOMAIN text :
                         text[k] # " " /\ \A j \in 1..(k - 1) : text[j] = " "
             last == CHOOSE k \in DOMAIN text :
                        text[k] # " " /\ \A j \in (k + 1)..Len(text) : text[j] = " "
         IN  SubSeq(text, first, last)

ParseIntError == [tag |-> "ParseIntError"]

\* n.trim().parse::<i32>(): succeeds on exactly one integer literal
parse_i32(n) ==
    LET field == trim(n)
    IN  IF Len(field) = 1 /\ field[1] \in DOMAIN Literals
        THEN [kind |-> "Ok", value |-> Literals[field[1]]]
        ELSE Err(ParseIntError)

\* collect::<Result<Vec<_>, _>>(): the values, or the first error
collect(results) ==
    IF \E i \in DOMAIN results : results[i].kind = "Err"
    THEN results[CHOOSE k \in DOMAIN results :
                    results[k].kind = "Err"
                    /\ \A j \in 1..(k - 1) : results[j].kind # "Err"]
    ELSE [kind |-> "Ok", value |-> [i \in DOMAIN results |-> results[i].value]]

\* the closure of the outer map: one side of the arrow to its numbers
parse_side(c) ==
    LET fields == splitn2(trim(c), ",")
    IN  collect([i \in DOMAIN fields |-> parse_i32(fields[i])])

\* _move.splitn(2, "->").map(...).collect()
parse_move(line) ==
    LET sides == splitn2(line, "->")
    IN  collect([i \in DOMAIN sides |-> parse_side(sides[i])])

\* one turn of main's loop on an input line: the result it reports and the
\* game it leaves; unreachable!() and an index past the end panic
read_line(g, line) ==
    LET parsed == parse_move(line)
    IN  IF parsed.kind = "Err" THEN [res |-> parsed, game |-> g]
        ELSE IF Len(parsed.value) # 2 THEN [res |-> Panic, game |-> g]
        ELSE LET f == parsed.value[1]
                 t == parsed.value[2]
             IN  IF Len(f) < 2 \/ Len(t) < 2 THEN [res |-> Panic, game |-> g]
                 ELSE Game_move_piece(g, new(f[1], f[2]), new(t[1], t[2]))

----------------------------------------------------------------------------
(* The state machine *)

\* the cells callers name in a game: the centre files where the two pawn
\* lines meet, White's king and a bishop behind the pawns, the rook on the
\* king's rank, and cells off the board
Arena ==
    { new(0, -1), new(1, -2), new(2, -3),
      new(0, 0), new(1, -1), new(1, 0), new(2, -2), new(2, -1), new(2, 0),
      new(0, 1), new(1, 1), new(2, 1),
      new(0, -3), new(0, -4), new(1, -3), new(1, -4), new(1, -5), new(3, -5),
      new(1, -6) }

NoCall == [op |-> "none"]

\* what stands on cell c: {} or {piece}
At(b, c) == IF contains_key(b, c) THEN {b.pieces[c]} ELSE {}

Call(op, from, to) ==
    [op |-> op, from |-> from, to |-> to,
     piece |-> At(board, from), target |-> At(board, to)]

NoResult == [kind |-> "none"]

TypeOK ==
    /\ obj \in {"Game", "HexBoard", "Piece", "App", "Console"}
    /\ turn \in Teams
    /\ finished \in BOOLEAN
    /\ pc \in {"startup", "idle", "events", "returned", "panicked", "done"}
    /\ accepted \in Nat
    /\ \A c \in DOMAIN board.pieces : board.pieces[c] \in Pieces

\* let mut game = Game::new()
Init ==
    /\ obj = "Game"
    /\ turn = Game_new.turn
    /\ board = Game_new.board
    /\ finished = Game_new.finished
    /\ pc = "idle"
    /\ call = NoCall
    /\ result = NoResult
    /\ accepted = 0
    /\ piece_sprites = PieceSprites_default
    /\ select = SelectedHex_new

\* game.move_piece(from, to)
GameMovePiece(from, to) ==
    LET g == [turn |-> turn, board |-> board, finished |-> finished]
        out == Game_move_piece(g, from, to)
    IN  /\ obj = "Game"
        /\ pc = "idle"
        /\ out.res.kind = "Ok" => accepted < MaxMoves
        /\ turn' = out.game.turn
        /\ board' = out.game.board
        /\ finished' = out.game.finished
        /\ call' = Call("Game::move_piece", from, to)
        /\ result' = out.res
        /\ accepted' = IF out.res.kind = "Ok" THEN accepted + 1 ELSE accepted
        /\ pc' = IF out.res.kind = "Panic" THEN "panicked" ELSE "returned"
        /\ UNCHANGED <<obj, piece_sprites, select>>

\* the caller has looked at the result and is ready for its next call
Return ==
    /\ pc = "returned"
    /\ pc' = "idle"
    /\ call' = NoCall
    /\ result' = NoResult
    /\ UNCHANGED <<obj, turn, board, finished, accepted, piece_sprites, select>>

Next ==
    \/ /\ obj = "Game" /\ pc = "idle"
       /\ \E from \in Arena, to \in Arena : GameMovePiece(from, to)
    \/ Return

Spec == Init /\ [][Next]_vars

----------------------------------------------------------------------------
(* A bare HexBoard, built with place() as the crate's tests do *)

\* the cells callers name on a bare board: four cells of file q = 1
\* around White's home cell (1,-2), a neighbour on file q = 2, and a cell
\* off the board
BoardArena ==
    { new(1, -3), new(1, -2), new(1, -1), new(1, 0), new(2, -1), new(1, -6) }

\* let mut board = HexBoard::new()
InitBoard ==
    /\ obj = "HexBoard"
    /\ board = HexBoard_new
    /\ turn = White
    /\ finished = FALSE
    /\ pc = "idle"
    /\ call = NoCall
    /\ result = NoResult
    /\ accepted = 0
    /\ piece_sprites = PieceSprites_default
    /\ select = SelectedHex_new

\* board.place(c, piece)
Place(c, piece) ==
    /\ obj = "HexBoard"
    /\ pc = "idle"
    /\ Cardinality(DOMAIN board.pieces) < MaxPlaced
    /\ board' = place(board, c, piece)
    /\ UNCHANGED <<obj, turn, finished, pc, call, result, accepted, piece_sprites, select>>

\* board.move_piece(from, to)
BoardMovePiece(from, to) ==
    LET out == move_piece(board, from, to)
    IN  /\ obj = "HexBoard"
        /\ pc = "idle"
        /\ board' = out.board
        /\ call' = Call("HexBoard::move_piece", from, to)
        /\ result' = out.res
        /\ pc' = IF out.res.kind = "Panic" THEN "panicked" ELSE "returned"
        /\ UNCHANGED <<obj, turn, finished, accepted, piece_sprites, select>>

NextBoard ==
    \/ /\ obj = "HexBoard" /\ pc = "idle"
       /\ \E c \in BoardArena, piece \in Pieces : Place(c, piece)
    \/ /\ obj = "HexBoard" /\ pc = "idle"
       /\ \E from \in BoardArena, to \in BoardArena : BoardMovePiece(from, to)
    \/ Return

SpecBoard == InitBoard /\ [][NextBoard]_vars

\* either program: a game session, or a bare board
InitAll == Init \/ InitBoard

NextAll ==
    \/ /\ obj = "Game" /\ pc = "idle"
       /\ \E from \in Arena, to \in Arena : GameMovePiece(from, to)
    \/ /\ obj = "HexBoard" /\ pc = "idle"
       /\ \E c \in BoardArena, piece \in Pieces : Place(c, piece)
    \/ /\ obj = "HexBoard" /\ pc = "idle"
       /\ \E from \in BoardArena, to \in BoardArena : BoardMovePiece(from, to)
    \/ Return

SpecAll == InitAll /\ [][NextAll]_vars

----------------------------------------------------------------------------
(* A piece on its own: Piece::verify_move as a function of (f, t) *)

\* the cells handed to verify_move
ShapeCells == {new(q, r) : q \in (-MaxCoord)..MaxCoord, r \in (-MaxCoord)..MaxCoord}

\* no board and no game: pieces are made with Piece::new as they are needed
InitShape ==
    /\ obj = "Piece"
    /\ board = HexBoard_new
    /\ turn = White
    /\ finished = FALSE
    /\ pc = "idle"
    /\ call = NoCall
    /\ result = NoResult
    /\ accepted = 0
    /\ piece_sprites = PieceSprites_default
    /\ select = SelectedHex_new

\* Piece::new(name, team).verify_move(f, t)
VerifyMove(piece, f, t) ==
    /\ obj = "Piece"
    /\ pc = "idle"
    /\ call' = [op |-> "Piece::verify_move", from |-> f, to |-> t,
                piece |-> {piece}, target |-> {}]
    /\ result' = verify_move(piece, f, t)
    /\ pc' = "returned"
    /\ UNCHANGED <<obj, turn, board, finished, accepted, piece_sprites, select>>

NextShape ==
    \/ /\ obj = "Piece" /\ pc = "idle"
       /\ \E piece \in Pieces, f \in ShapeCells, t \in ShapeCells :
             VerifyMove(piece, f, t)
    \/ Return

SpecShape == InitShape /\ [][NextShape]_vars

----------------------------------------------------------------------------
(* A game on a board set up by the caller: Game.board is a pub field, so a
   caller can put a board built with HexBoard::new and place in its game *)

\* White's king in the corner next to (0,-5), Black's queen two cells from
\* (0,-4) on the king's rank, Black's rook behind (0,-4) on file q = 0
MateBoard ==
    place(place(place(HexBoard_new,
                      new(1, -5), Piece("King", White)),
                new(2, -4), Piece("Queen", Black)),
          new(0, -2), Piece("Rook", Black))

\* the cells callers name in that game
MateArena ==
    { new(1, -5), new(0, -5), new(2, -4), new(0, -4), new(1, -4), new(-1, -4),
      new(0, -3), new(0, -2) }

\* let mut game = Game::new(); game.board = the board above
InitMate ==
    /\ obj = "Game"
    /\ turn = Game_new.turn
    /\ board = MateBoard
    /\ finished = Game_new.finished
    /\ pc = "idle"
    /\ call = NoCall
    /\ result = NoResult
    /\ accepted = 0
    /\ piece_sprites = PieceSprites_default
    /\ select = SelectedHex_new

NextMate ==
    \/ /\ obj = "Game" /\ pc = "idle"
       /\ \E from \in MateArena, to \in MateArena : GameMovePiece(from, to)
    \/ Return

SpecMate == InitMate /\ [][NextMate]_vars

----------------------------------------------------------------------------
(* The graphical front-end: App::new() ... .run() *)

\* the cells the cursor is over: the two centre files where the pawn lines
\* meet, and a cell off the board
AppArena ==
    { new(0, -1), new(0, 0), new(0, 1), new(1, -2), new(1, -1), new(1, 0), new(1, 1),
      new(1, -6) }

\* wnd.cursor_position(): outside the window, or over a cell
Cursors == {NoCoord} \cup {SomeCoord(c) : c \in AppArena}

\* the mouse button events of one frame
EventLists ==
    UNION { [1..n -> {"LeftPressed", "LeftReleased"}] : n \in 0..MaxEvents }

\* the resources as init_resource leaves them, before the startup system
InitApp ==
    /\ obj = "App"
    /\ turn = Game_new.turn
    /\ board = Game_new.board
    /\ finished = Game_new.finished
    /\ pc = "startup"
    /\ call = NoCall
    /\ result = NoResult
    /\ accepted = 0
    /\ piece_sprites = PieceSprites_default
    /\ select = SelectedHex_new

\* add_startup_system(setup)
Setup ==
    /\ obj = "App"
    /\ pc = "startup"
    /\ piece_sprites' = setup([turn |-> turn, board |-> board, finished |-> finished],
                              piece_sprites)
    /\ pc' = "idle"
    /\ UNCHANGED <<obj, turn, board, finished, call, result, accepted, select>>

\* piece_click_system is entered for a frame: without a cursor position it
\* returns at once, with one it sets the hovered tile and turns to the events
BeginFrame(cursor, events) ==
    /\ obj = "App"
    /\ pc = "idle"
    /\ select' = IF cursor.some THEN [select EXCEPT !.hover = cursor] ELSE select
    /\ call' = [op |-> "piece_click_system", cursor |-> cursor, events |-> events]
    /\ result' = <<>>
    /\ pc' = IF cursor.some THEN "events" ELSE "idle"
    /\ UNCHANGED <<obj, turn, board, finished, accepted, piece_sprites>>

\* the loop takes the next mouse button event of the frame
NextEvent ==
    /\ obj = "App"
    /\ pc = "events"
    /\ call.events # <<>>
    /\ \E before \in { Resources([turn |-> turn, board |-> board, finished |-> finished],
                                  piece_sprites, select) } :
          \E st \in { mouse_button_event(before, call.cursor.c, Head(call.events)) } :
             /\ accepted + Len(SelectSeq(st.submitted, IsAccepted)) <= MaxMoves
             /\ turn' = st.game.turn
             /\ board' = st.game.board
             /\ finished' = st.game.finished
             /\ piece_sprites' = st.piece_sprites
             /\ select' = st.select
             /\ result' = result \o st.submitted
             /\ accepted' = accepted + Len(SelectSeq(st.submitted, IsAccepted))
             /\ pc' = IF st.panicked THEN "panicked" ELSE "events"
    /\ call' = [call EXCEPT !.events = Tail(call.events)]
    /\ UNCHANGED obj

\* the events of the frame are used up and piece_click_system returns
EndFrame ==
    /\ obj = "App"
    /\ pc = "events"
    /\ call.events = <<>>
    /\ pc' = "idle"
    /\ UNCHANGED <<obj, turn, board, finished, call, result, accepted, piece_sprites, select>>

NextApp ==
    \/ Setup
    \/ /\ obj = "App" /\ pc = "idle"
       /\ \E cursor \in Cursors, events \in EventLists : BeginFrame(cursor, events)
    \/ NextEvent
    \/ EndFrame

SpecApp == InitApp /\ [][NextApp]_vars

----------------------------------------------------------------------------
(* The console: main() reading stdin line by line *)

\* what a line is made of: the numbers of White's first pawn move, text that
\* is no number, the two separators and a blank
Tokens == (DOMAIN Literals) \cup {"x", ",", "->", " "}

\* the lines of up to MaxLine tokens; two integer literals in a row would be
\* one literal
Lines ==
    { line \in UNION { [1..n -> Tokens] : n \in 0..MaxLine } :
         \A i \in 1..(Len(line) - 1) : ~(line[i] \in DOMAIN Literals /\ line[i + 1] \in DOMAIN Literals) }

\* let mut game = Game::new(); before the first line is read
InitConsole ==
    /\ obj = "Console"
    /\ turn = Game_new.turn
    /\ board = Game_new.board
    /\ finished = Game_new.finished
    /\ pc = "idle"
    /\ call = NoCall
    /\ result = NoResult
    /\ accepted = 0
    /\ piece_sprites = PieceSprites_default
    /\ select = SelectedHex_new

\* lines.next() is Some(line): one turn of the loop
ReadLine(line) ==
    \E out \in { read_line([turn |-> turn, board |-> board, finished |-> finished], line) } :
        /\ obj = "Console"
        /\ pc = "idle"
        /\ out.res.kind = "Ok" => accepted < MaxMoves
        /\ turn' = out.game.turn
        /\ board' = out.game.board
        /\ finished' = out.game.finished
        /\ call' = [op |-> "main", line |-> line]
        /\ result' = out.res
        /\ accepted' = IF out.res.kind = "Ok" THEN accepted + 1 ELSE accepted
        /\ pc' = IF out.res.kind = "Panic" THEN "panicked" ELSE "returned"
        /\ UNCHANGED <<obj, piece_sprites, select>>

\* lines.next() is None: break
EndOfInput ==
    /\ obj = "Console"
    /\ pc = "idle"
    /\ pc' = "done"
    /\ UNCHANGED <<obj, turn, board, finished, call, result, accepted, piece_sprites, select>>

NextConsole ==
    \/ /\ obj = "Console" /\ pc = "idle"
       /\ \E line \in Lines : ReadLine(line)
    \/ Return
    \/ EndOfInput

SpecConsole == InitConsole /\ [][NextConsole]_vars

----------------------------------------------------------------------------
(* Claims *)

IsErr(res) == res.kind = "Err"

IsOk(res) == res.kind = "Ok"

\* the GameError variant of a result of Game::move_piece
GameErrorTag(res) ==
    IF IsErr(res) /\ "tag" \in DOMAIN res.err THEN res.err.tag ELSE "none"

\* whether a result carries a MoveError, bare or wrapped in a GameError
HasMoveError(res) ==
    IsErr(res) /\ ("tag" \in DOMAIN res.err => res.err.tag = "MoveError")

\* the MoveError a result carries
TheMoveError(res) ==
    IF "tag" \in DOMAIN res.err THEN res.err.source ELSE res.err

\* the MoveErrorType variant a result carries
MoveErrorTag(res) ==
    IF HasMoveError(res) THEN TheMoveError(res).err_type.tag ELSE "none"

\* C1: a rejected move mutates nothing: when HexBoard::move_piece or
\* Game::move_piece returns an error, the piece map (the whole board), the
\* turn and finished are what they were before the call.
C1_RejectedMoveMutatesNothing ==
    [][IsErr(result') =>
          /\ board' = board
          /\ turn' = turn
          /\ finished' = finished]_vars

\* in a game with moves made, a call the board rejected for a blocked path
C1_Witness ==
    /\ obj = "Game"
    /\ pc = "returned"
    /\ accepted > 0
    /\ GameErrorTag(result) = "MoveError"
    /\ MoveErrorTag(result) = "CollisionOnPath"

\* C2: Game::new() starts with White to move; an accepted Game::move_piece
\* flips the turn, a rejected one leaves it, so the turn is White exactly
\* when the number of accepted moves is even.
C2_TurnAlternates ==
    /\ turn = White
    /\ [][/\ IsOk(result') => turn' # turn
          /\ IsErr(result') => turn' = turn]_vars
    /\ []((turn = White) <=> (accepted % 2 = 0))

\* three moves accepted, Black to move
C2_Witness == obj = "Game" /\ accepted = 3 /\ turn = Black /\ IsOk(result)

\* C3: a Game::move_piece whose `from` holds a piece of the side not to move
\* returns TurnError{given: the piece's team, real: the turn}, whatever `to`
\* is; given and real always differ; an accepted move moves a piece of the
\* side to move.
C3_WrongTeamIsTurnError ==
    [][call'.op = "Game::move_piece" =>
          /\ (contains_key(board, call'.from)
                /\ board.pieces[call'.from].team # turn)
             => result' = Err(TurnError(board.pieces[call'.from].team, turn))
          /\ GameErrorTag(result') = "TurnError"
             => result'.err.given # result'.err.real
          /\ IsOk(result')
             => (contains_key(board, call'.from)
                   /\ board.pieces[call'.from].team = turn)]_vars

\* a White piece named while Black is to move
C3_Witness ==
    /\ pc = "returned"
    /\ GameErrorTag(result) = "TurnError"
    /\ result.err.given = White
    /\ result.err.real = Black
    /\ call.to # call.from

Count(b) == Cardinality(DOMAIN b.pieces)

\* how many pieces equal to p stand on the board
KindCount(b, p) == Cardinality({c \in DOMAIN b.pieces : b.pieces[c] = p})

TeamCount(b, team) == Cardinality({c \in DOMAIN b.pieces : b.pieces[c].team = team})

\* C4: after an accepted move_piece(from, to), `from` is empty, `to` holds the
\* piece that stood on `from` (same name, same team), what stood on `to` is
\* gone, and every other cell holds what it held.
C4_AcceptedMoveFrame ==
    [][(call'.op # "none" /\ IsOk(result')) =>
          /\ contains_key(board, call'.from)
          /\ ~contains_key(board', call'.from)
          /\ contains_key(board', call'.to)
          /\ board'.pieces[call'.to] = board.pieces[call'.from]
          /\ Count(board') = Count(board) - Cardinality(At(board, call'.to))
          /\ \A c \in ((DOMAIN board.pieces) \cup (DOMAIN board'.pieces))
                        \ {call'.from, call'.to} :
                /\ contains_key(board, c)
                /\ contains_key(board', c)
                /\ board'.pieces[c] = board.pieces[c]]_vars

\* an accepted capture on a bare board
C4_Witness ==
    /\ obj = "HexBoard"
    /\ pc = "returned"
    /\ IsOk(result)
    /\ call.target # {}
    /\ call.piece # call.target
    /\ At(board, call.to) = call.piece
    /\ At(board, call.from) = {}

\* C5: no accepted move creates or duplicates a piece: the number of pieces
\* stays on a move onto an empty cell and drops by one on a move onto an
\* occupied cell; from Game::new() there are never more than 36 pieces and no
\* team (no kind of piece of a team) ever grows.
C5_PiecesNeverMultiply ==
    [][/\ IsOk(result') =>
             Count(board') = Count(board)
                               - (IF contains_key(board, call'.to) THEN 1 ELSE 0)
       /\ Count(board') <= 36
       /\ \A team \in Teams : TeamCount(board', team) <= TeamCount(board, team)
       /\ \A p \in Pieces : KindCount(board', p) <= KindCount(board, p)]_vars

\* a capture in a game: 35 pieces left
C5_Witness ==
    /\ obj = "Game"
    /\ pc = "returned"
    /\ IsOk(result)
    /\ call.target # {}
    /\ Count(board) = 35

\* the board of the rules: |q|, |r|, |s| <= 5
OnBoard(c) == Abs(c[1]) <= 5 /\ Abs(c[2]) <= 5 /\ Abs(0 - c[1] - c[2]) <= 5

\* reflection across q: (q, r) -> (q, s)
Reflect(c) == <<c[1], 0 - c[1] - c[2]>>

\* pieces per team in the starting position
StartingCount(name) ==
    CASE name = "King" -> 1
      [] name = "Queen" -> 1
      [] name = "Bishop" -> 3
      [] name = "Knight" -> 2
      [] name = "Rook" -> 2
      [] name = "Pawn" -> 9

\* C6: before any move is accepted the game holds 36 pieces on 36 cells of
\* the board, 18 per team (1 king, 1 queen, 3 bishops, 2 knights, 2 rooks,
\* 9 pawns each); a Black piece of a kind is at reflect_q(c) exactly when a
\* White piece of that kind is at c; White is to move and the game is not
\* finished.
C6_InitialPosition ==
    accepted = 0 =>
       /\ Count(board) = 36
       /\ \A c \in DOMAIN board.pieces : OnBoard(c)
       /\ \A team \in Teams :
             /\ TeamCount(board, team) = 18
             /\ \A name \in Names :
                   KindCount(board, [name |-> name, team |-> team]) = StartingCount(name)
       /\ \A c \in (DOMAIN board.pieces) \cup {Reflect(x) : x \in DOMAIN board.pieces} :
             \A name \in Names :
                At(board, c) = {[name |-> name, team |-> White]}
                   <=> At(board, Reflect(c)) = {[name |-> name, team |-> Black]}
       /\ turn = White
       /\ finished = FALSE

\* the game as constructed, Black's king at (1, 4) opposite White's at (1, -5)
C6_Witness ==
    /\ obj = "Game"
    /\ accepted = 0
    /\ call = NoCall
    /\ At(board, <<1, -5>>) = {[name |-> "King", team |-> White]}
    /\ At(board, <<1, 4>>) = {[name |-> "King", team |-> Black]}

\* C7: a move whose destination is off the board (|q|, |r| or |s| above 5)
\* is rejected, by the board with InvalidMove, so every piece of a game
\* stands on a cell of the board.
C7_PiecesStayOnBoard ==
    /\ \A c \in DOMAIN board.pieces : OnBoard(c)
    /\ (pc = "returned" /\ ~OnBoard(call.to)) =>
          /\ IsErr(result)
          /\ HasMoveError(result) => MoveErrorTag(result) = "InvalidMove"
          /\ (\E p \in call.piece : p.team = turn) =>
                MoveErrorTag(result) = "InvalidMove"

\* White's king asked to step off the board after moves were made
C7_Witness ==
    /\ obj = "Game"
    /\ pc = "returned"
    /\ accepted > 0
    /\ ~OnBoard(call.to)
    /\ call.piece = {[name |-> "King", team |-> White]}
    /\ MoveErrorTag(result) = "InvalidMove"

\* the one piece of a non-empty cell content
The(cell) == CHOOSE p \in cell : TRUE

\* C8: for a move of a piece to a cell of the board that its shape allows,
\* HexBoard::move_piece returns InvalidMove exactly when the shape forbids
\* capture and `to` is occupied, or `to` holds a piece of the mover's team,
\* or the shape forbids a quiet move and `to` is empty; so an accepted move
\* never lands on the mover's own team.
C8_OccupancyRule ==
    (pc = "returned" /\ call.piece # {} /\ OnBoard(call.to)) =>
       LET piece == The(call.piece)
           shape == verify_move(piece, call.from, call.to)
       IN  /\ shape.some =>
                (MoveErrorTag(result) = "InvalidMove"
                   <=> \/ (~shape.capture /\ call.target # {})
                       \/ (\E x \in call.target : x.team = piece.team)
                       \/ (~shape.move /\ call.target = {}))
           /\ IsOk(result) => \A x \in call.target : x.team # piece.team

\* a rook asked to take a piece of its own team on its line
C8_Witness ==
    /\ obj = "HexBoard"
    /\ pc = "returned"
    /\ call.from # call.to
    /\ OnBoard(call.to)
    /\ \E p \in call.piece, x \in call.target :
          p.name = "Rook" /\ x.team = p.team
    /\ MoveErrorTag(result) = "InvalidMove"

\* a displacement in the mover's frame: Black's cells are reflected across q
FrameStep(piece, from, to) ==
    IF piece.team = Black
    THEN <<to[1] - from[1], Reflect(to)[2] - Reflect(from)[2]>>
    ELSE <<to[1] - from[1], to[2] - from[2]>>

PawnForward == <<0, 1>>

PawnTwoStep == <<0, 2>>

PawnDiagonals == {<<1, 0>>, <<-1, 1>>}

\* C9: in the mover's frame a pawn's step to (q, r+1) is move-only, its
\* steps to (q+1, r) and (q-1, r+1) are capture-only, and no displacement
\* but these and the two-step is a shape; so forward onto an occupied cell
\* and diagonally onto an empty cell are InvalidMove, and diagonally onto an
\* enemy piece (on the board) is accepted and captures it.
C9_PawnShapes ==
    (pc = "returned" /\ call.piece # {} /\ The(call.piece).name = "Pawn") =>
       LET pawn == The(call.piece)
           d == FrameStep(pawn, call.from, call.to)
           shape == verify_move(pawn, call.from, call.to)
       IN  /\ d = PawnForward =>
                /\ shape = [some |-> TRUE, move |-> TRUE, capture |-> FALSE]
                /\ call.target # {} => MoveErrorTag(result) = "InvalidMove"
                /\ (call.target = {} /\ OnBoard(call.to)) => IsOk(result)
           /\ d \in PawnDiagonals =>
                /\ shape = [some |-> TRUE, move |-> FALSE, capture |-> TRUE]
                /\ call.target = {} => MoveErrorTag(result) = "InvalidMove"
                /\ ((\E x \in call.target : x.team # pawn.team) /\ OnBoard(call.to))
                      => /\ IsOk(result)
                         /\ At(board, call.to) = {pawn}
                         /\ At(board, call.from) = {}
           /\ d \notin ({PawnForward, PawnTwoStep} \cup PawnDiagonals) =>
                /\ shape = [some |-> FALSE]
                /\ MoveErrorTag(result) = "InvalidMove"

\* a Black pawn has captured diagonally
C9_Witness ==
    /\ obj = "HexBoard"
    /\ pc = "returned"
    /\ IsOk(result)
    /\ call.piece = {[name |-> "Pawn", team |-> Black]}
    /\ call.target # {}
    /\ FrameStep(The(call.piece), call.from, call.to) \in PawnDiagonals

\* the nine cells a team's pawns start on
PawnHomeCells(team) ==
    LET white == { <<4, -5>>, <<3, -4>>, <<2, -3>>, <<1, -2>>, <<0, -1>>,
                   <<-1, -1>>, <<-2, -1>>, <<-3, -1>>, <<-4, -1>> }
    IN  IF team = White THEN white ELSE {Reflect(c) : c \in white}

\* one cell straight ahead, on the board's own coordinates
Ahead(team, c, k) == IF team = White THEN <<c[1], c[2] + k>> ELSE <<c[1], c[2] - k>>

\* C10: a pawn on one of its team's nine starting cells may advance two cells
\* straight ahead: with the cell passed over and the destination both empty
\* and on the board, move_piece accepts it.
C10_HomePawnMayAdvanceTwo ==
    [][(/\ call'.op # "none"
        /\ contains_key(board, call'.from)
        /\ board.pieces[call'.from].name = "Pawn"
        /\ (obj = "Game" => board.pieces[call'.from].team = turn)
        /\ call'.from \in PawnHomeCells(board.pieces[call'.from].team)
        /\ call'.to = Ahead(board.pieces[call'.from].team, call'.from, 2)
        /\ ~contains_key(board, Ahead(board.pieces[call'.from].team, call'.from, 1))
        /\ ~contains_key(board, call'.to)
        /\ OnBoard(call'.to))
       => IsOk(result')]_vars

\* C11: a pawn advances two cells only from the cell it first stood on: once
\* a pawn has made a move, a two-cell advance by that pawn from the cell it
\* moved to is rejected with InvalidMove.
C11_MovedPawnNeverAdvancesTwo ==
    (/\ pc = "returned"
     /\ IsOk(result)
     /\ call.piece # {}
     /\ The(call.piece).name = "Pawn") =>
       LET pawn == The(call.piece)
           next == move_piece(board, call.to, Ahead(pawn.team, call.to, 2))
       IN  MoveErrorTag(next.res) = "InvalidMove"

\* C12: a pawn on a cell that is not one of its team's nine starting pawn
\* cells may step one cell only: a two-cell advance from such a cell is
\* rejected with InvalidMove whatever else is on the board.
C12_OffHomePawnNeverAdvancesTwo ==
    (/\ pc = "returned"
     /\ call.piece # {}
     /\ The(call.piece).name = "Pawn"
     /\ call.from \notin PawnHomeCells(The(call.piece).team)
     /\ call.to = Ahead(The(call.piece).team, call.from, 2)) =>
       MoveErrorTag(result) = "InvalidMove"

\* the displacement of a call, on the board's own coordinates
Displacement == <<call.to[1] - call.from[1], call.to[2] - call.from[2]>>

\* a call of Piece::verify_move on a piece of the given kind has returned
Verified(name) ==
    /\ obj = "Piece"
    /\ pc = "returned"
    /\ The(call.piece).name = name

\* what HexBoard::move_piece answers for the call's piece alone on a board
AloneOnBoard ==
    move_piece(place(HexBoard_new, call.from, The(call.piece)), call.from, call.to).res

BothWays == [some |-> TRUE, move |-> TRUE, capture |-> TRUE]

NoShape == [some |-> FALSE]

\* the six unit diagonals
BishopDirections ==
    { <<1, -2>>, <<2, -1>>, <<1, 1>>, <<-1, 2>>, <<-2, 1>>, <<-1, -1>> }

\* v = k * d for a unit diagonal d and an integer k # 0
IsBishopLine(v) ==
    \E d \in BishopDirections, k \in (-12)..12 :
       k # 0 /\ v = <<k * d[1], k * d[2]>>

\* C13: for a bishop verify_move returns Some{move, capture} exactly when
\* t - f is k*d for an integer k # 0 and one of the six unit diagonals d, and
\* None otherwise (so not for t = f); a move that is no bishop shape is
\* rejected by the board with InvalidMove.
C13_BishopShape ==
    Verified("Bishop") =>
       /\ IsBishopLine(Displacement) => result = BothWays
       /\ ~IsBishopLine(Displacement) =>
             /\ result = NoShape
             /\ MoveErrorTag(AloneOnBoard) = "InvalidMove"

\* the cube coordinates of a cell
Cube(c) == <<c[1], c[2], 0 - c[1] - c[2]>>

\* from and to have the same q, the same r or the same s
SharesAxis(from, to) == \E i \in 1..3 : Cube(from)[i] = Cube(to)[i]

\* C14: for a rook verify_move returns Some{move, capture} exactly when from
\* and to have equal q, equal r or equal s, and None otherwise; for a queen it
\* returns Some{move, capture} exactly when the rook rule or the bishop rule
\* accepts the same (from, to), and None otherwise.
C14_RookAndQueenShapes ==
    /\ Verified("Rook") =>
          result = IF SharesAxis(call.from, call.to) THEN BothWays ELSE NoShape
    /\ Verified("Queen") =>
          LET team == The(call.piece).team
              rook == verify_move(Piece("Rook", team), call.from, call.to)
              bishop == verify_move(Piece("Bishop", team), call.from, call.to)
          IN  /\ result = IF rook.some \/ bishop.some THEN BothWays ELSE NoShape
              /\ SharesAxis(call.from, call.to) => result = BothWays
              /\ IsBishopLine(Displacement) => result = BothWays
              /\ (~SharesAxis(call.from, call.to) /\ ~IsBishopLine(Displacement))
                    => result = NoShape

\* a Black queen asked for a diagonal that no rook can travel
C14_Witness ==
    /\ Verified("Queen")
    /\ The(call.piece).team = Black
    /\ ~SharesAxis(call.from, call.to)
    /\ IsBishopLine(Displacement)
    /\ result = BothWays

\* the twelve displacements whose cube components are a permutation of
\* (1, 2, -3) or of (-1, -2, 3)
KnightVectors ==
    { <<1, 2>>, <<1, -3>>, <<2, 1>>, <<2, -3>>, <<-3, 1>>, <<-3, 2>>,
      <<-1, -2>>, <<-1, 3>>, <<-2, -1>>, <<-2, 3>>, <<3, -1>>, <<3, -2>> }

\* C15: for a knight verify_move returns Some{move, capture} exactly when the
\* displacement v has |v.q * v.r * v.s| = 6, which is exactly the twelve
\* vectors whose cube components permute (1,2,-3) or (-1,-2,3), and None
\* otherwise; alone on a board a knight's move to a cell of the board is
\* accepted when it is such a jump and is InvalidMove when it is not.
C15_KnightShape ==
    Verified("Knight") =>
       LET v == Cube(Displacement)
       IN  /\ (Displacement \in KnightVectors) <=> (Abs(v[1] * v[2] * v[3]) = 6)
           /\ result = IF Displacement \in KnightVectors THEN BothWays ELSE NoShape
           /\ Displacement \notin KnightVectors =>
                 MoveErrorTag(AloneOnBoard) = "InvalidMove"
           /\ (Displacement \in KnightVectors /\ OnBoard(call.to)) =>
                 IsOk(AloneOnBoard)

\* a Black knight jumping from (0,0) to (3,-1)
C15_Witness ==
    /\ Verified("Knight")
    /\ The(call.piece).team = Black
    /\ call.from = <<0, 0>>
    /\ call.to = <<3, -1>>
    /\ result = BothWays
    /\ IsOk(AloneOnBoard)

\* the twelve displacements of hex length 1 or squared norm 3
KingVectors ==
    { <<1, 0>>, <<-1, 0>>, <<0, 1>>, <<0, -1>>, <<1, -1>>, <<-1, 1>> }
       \cup BishopDirections

\* C16: for a king verify_move returns Some{move, capture} exactly when the
\* displacement has hex length 1 or squared norm 3 (six adjacent cells and six
\* unit diagonals, twelve displacements), and None otherwise; a farther move
\* is rejected by the board with InvalidMove.
C16_KingShape ==
    Verified("King") =>
       /\ (Displacement \in KingVectors)
             <=> (length(Displacement) = 1 \/ norm_squared(Displacement) = 3)
       /\ Cardinality(KingVectors) = 12
       /\ result = IF Displacement \in KingVectors THEN BothWays ELSE NoShape
       /\ Displacement \notin KingVectors =>
             MoveErrorTag(AloneOnBoard) = "InvalidMove"

\* a king asked to step along a unit diagonal
C16_Witness ==
    /\ Verified("King")
    /\ Displacement = <<1, 1>>
    /\ result = BothWays
    /\ IsOk(AloneOnBoard)

\* C17: for every kind and every (f, t), a White piece's verify_move(f, t)
\* equals a Black piece's verify_move(reflect_q(f), reflect_q(t)), and
\* reflect_q applied twice gives the cell back.
C17_ShapeSymmetry ==
    (obj = "Piece" /\ pc = "returned") =>
       LET piece == The(call.piece)
           other == [name |-> piece.name, team |-> IF piece.team = "White" THEN "Black" ELSE "White"]
       IN  /\ result = verify_move(other, reflect_q(call.from), reflect_q(call.to))
           /\ reflect_q(call.from) = Reflect(call.from)
           /\ reflect_q(reflect_q(call.from)) = call.from
           /\ reflect_q(reflect_q(call.to)) = call.to

\* a White pawn's capture step, which is no pawn step once reflected
C17_Witness ==
    /\ Verified("Pawn")
    /\ The(call.piece).team = White
    /\ Displacement = <<1, 0>>
    /\ result = [some |-> TRUE, move |-> FALSE, capture |-> TRUE]
    /\ ~verify_pawn(reflect_q(call.from), reflect_q(call.to)).some

RECURSIVE Gcd(_, _)
Gcd(a, b) == IF b = 0 THEN a ELSE Gcd(b, a % b)

\* a non-zero displacement along one of the three axes
IsAxial(v) == v # <<0, 0>> /\ (v[1] = 0 \/ v[2] = 0 \/ v[1] + v[2] = 0)

\* the cells strictly between from and to on the line of travel: unit axis
\* steps on an axial line, unit diagonal steps on a diagonal line
Between(from, to) ==
    LET v == <<to[1] - from[1], to[2] - from[2]>>
        g == Gcd(Abs(v[1]), Abs(v[2]))
    IN  IF IsAxial(v) \/ IsBishopLine(v)
        THEN { <<from[1] + n * (v[1] \div g), from[2] + n * (v[2] \div g)>> : n \in 1..(g - 1) }
        ELSE {}

\* the last call reached HexBoard::move_piece with a piece on `from`
ReachedBoard ==
    /\ pc = "returned"
    /\ call.piece # {}
    /\ GameErrorTag(result) \notin {"PieceError", "TurnError"}

\* the last call's move is in bounds, is a shape and passes the occupancy test
PassesOccupancy ==
    LET piece == The(call.piece)
        shape == verify_move(piece, call.from, call.to)
    IN  /\ OnBoard(call.to)
        /\ shape.some
        /\ ~(~shape.capture /\ call.target # {})
        /\ ~(\E x \in call.target : x.team = piece.team)
        /\ ~(~shape.move /\ call.target = {})

\* C18: a move that passes the bounds, shape and occupancy checks is rejected
\* with CollisionOnPath, carrying the moving piece, exactly when a cell
\* strictly between from and to on its line of travel is occupied, and is
\* accepted otherwise; from and to themselves never count, and a pawn's
\* two-cell advance is blocked by a piece on the cell it passes over.
C18_PathBlocking ==
    (ReachedBoard /\ PassesOccupancy) =>
       LET blocked == \E c \in Between(call.from, call.to) : contains_key(board, c)
       IN  /\ (MoveErrorTag(result) = "CollisionOnPath") <=> blocked
           /\ blocked =>
                 TheMoveError(result).err_type
                    = [tag |-> "CollisionOnPath", piece |-> The(call.piece)]
           /\ ~blocked => IsOk(result)

\* in a game, a bishop stopped by a piece standing on its diagonal
C18_Witness ==
    /\ obj = "Game"
    /\ ReachedBoard
    /\ The(call.piece).name = "Bishop"
    /\ IsBishopLine(Displacement)
    /\ MoveErrorTag(result) = "CollisionOnPath"
    /\ \E c \in Between(call.from, call.to) : contains_key(board, c)

\* C19: a knight's move is never rejected with CollisionOnPath: it is accepted
\* exactly when the destination is on the board, the displacement is a knight
\* jump and the destination holds no piece of the knight's team, whatever
\* stands on any other cell (each of the twelve jumps is one step of the
\* path walk, which then visits no cell).
C19_KnightsJump ==
    (pc = "returned" /\ call.piece # {} /\ The(call.piece).name = "Knight") =>
       /\ MoveErrorTag(result) # "CollisionOnPath"
       /\ IsOk(result) <=>
             /\ OnBoard(call.to)
             /\ Displacement \in KnightVectors
             /\ \A x \in call.target : x.team # The(call.piece).team
       /\ ~IsOk(result) => MoveErrorTag(result) = "InvalidMove"
       /\ \A v \in KnightVectors : ~is_axis(v) /\ axial_len(v) = 1

\* a knight has jumped to an empty cell past a piece standing next to the
\* cell it left
C19_Witness ==
    /\ obj = "HexBoard"
    /\ pc = "returned"
    /\ IsOk(result)
    /\ call.piece # {}
    /\ The(call.piece).name = "Knight"
    /\ call.target = {}
    /\ \E c \in DOMAIN board.pieces :
          c # call.to /\ length(<<c[1] - call.from[1], c[2] - call.from[2]>>) = 1

\* C20: get(c) succeeds exactly when cell c is occupied and otherwise fails
\* with NoPiece(c); move_piece from an empty cell fails, for every `to`, with
\* MoveError{NoPiece(NoPiece(from)), from, to}; every MoveError the board
\* returns carries the attempted from and to and, for InvalidMove and
\* CollisionOnPath, the piece standing on from.
C20_ErrorsCarryTheAttempt ==
    /\ \A c \in BoardArena :
          /\ IsOk(get(board, c)) <=> At(board, c) # {}
          /\ At(board, c) = {} =>
                get(board, c) = [kind |-> "Err", err |-> [tag |-> "NoPiece", c |-> c]]
    /\ (pc = "returned" /\ call.piece = {}) =>
          result = [kind |-> "Err",
                    err |-> [err_type |-> [tag |-> "NoPiece",
                                           source |-> [tag |-> "NoPiece", c |-> call.from]],
                             from |-> call.from,
                             to |-> call.to]]
    /\ (pc = "returned" /\ IsErr(result)) =>
          /\ result.err.from = call.from
          /\ result.err.to = call.to
          /\ result.err.err_type.tag \in {"NoPiece", "InvalidMove", "CollisionOnPath"}
          /\ result.err.err_type.tag \in {"InvalidMove", "CollisionOnPath"} =>
                /\ call.piece # {}
                /\ result.err.err_type.piece = The(call.piece)
                /\ At(board, call.from) = call.piece

\* with a piece on the board, a move asked of an empty cell towards it
C20_Witness ==
    /\ obj = "HexBoard"
    /\ pc = "returned"
    /\ call.piece = {}
    /\ call.target # {}
    /\ call.from # call.to
    /\ MoveErrorTag(result) = "NoPiece"

\* C21: Game::move_piece looks at the cell, then at the turn, then asks the
\* board: an empty `from` gives PieceError whatever the turn and `to`; a
\* piece of the side not to move gives TurnError even when the board would
\* reject the move too; a MoveError comes only for a piece of the side to
\* move.
C21_GameChecksInOrder ==
    [][(obj = "Game" /\ pc = "idle" /\ pc' = "returned") =>
          LET occupant == At(board, call'.from)
          IN  /\ occupant = {} =>
                    result' = [kind |-> "Err",
                               err |-> [tag |-> "PieceError",
                                        source |-> [tag |-> "NoPiece", c |-> call'.from]]]
              /\ (occupant # {} /\ The(occupant).team # turn) =>
                    result' = [kind |-> "Err",
                               err |-> [tag |-> "TurnError",
                                        given |-> The(occupant).team,
                                        real |-> turn]]
              /\ GameErrorTag(result') = "MoveError" =>
                    occupant # {} /\ The(occupant).team = turn
              /\ IsOk(result') => occupant # {} /\ The(occupant).team = turn]_vars

\* a piece of the side not to move asked for a move the board would reject
C21_Witness ==
    /\ obj = "Game"
    /\ pc = "returned"
    /\ accepted > 0
    /\ GameErrorTag(result) = "TurnError"
    /\ IsErr(can_move(board, call.from, call.to))

\* C22: the board reports the first failing layer in the order bounds, shape,
\* occupancy, path: CollisionOnPath comes only for a move that is in bounds,
\* a shape and allowed by the occupancy of `to`; a move failing one of these
\* is InvalidMove even when a piece stands on its path.
C22_FirstFailingLayer ==
    ReachedBoard =>
       /\ MoveErrorTag(result) = "CollisionOnPath" => PassesOccupancy
       /\ ~PassesOccupancy => MoveErrorTag(result) = "InvalidMove"

\* a sliding move blocked on the way and ending on a piece of its own team
C22_Witness ==
    /\ ReachedBoard
    /\ OnBoard(call.to)
    /\ verify_move(The(call.piece), call.from, call.to).some
    /\ \E x \in call.target : x.team = The(call.piece).team
    /\ \E c \in Between(call.from, call.to) : contains_key(board, c)
    /\ MoveErrorTag(result) = "InvalidMove"

\* the cells of the enemy pieces that could capture the piece on cell k by
\* the bounds / shape / occupancy / path pipeline
Attackers(b, k) ==
    { e \in DOMAIN b.pieces :
         /\ b.pieces[e].team # b.pieces[k].team
         /\ unchecked_can_move(b, b.pieces[e], e, k).kind = "Ok" }

\* the cells of a team's kings
Kings(b, team) ==
    { k \in DOMAIN b.pieces : b.pieces[k] = [name |-> "King", team |-> team] }

\* the cells of the enemy pieces that could capture a king of the team
Checkers(b, team) == UNION { Attackers(b, k) : k \in Kings(b, team) }

InCheck(b, team) == Checkers(b, team) # {}

\* the cells a list names
Range(list) == { list[i] : i \in DOMAIN list }

\* C23: after every accepted HexBoard::move_piece, for each team the checkers
\* list is non-empty exactly when an enemy piece could capture that team's
\* king, and it holds the cells of exactly those pieces.
C23_CheckersTrackCheck ==
    (pc = "returned" /\ IsOk(result)) =>
       \A team \in Teams :
          /\ (board.checkers[TeamIndex(team)] # <<>>) <=> InCheck(board, team)
          /\ Range(board.checkers[TeamIndex(team)]) = Checkers(board, team)

\* C24: while a team is in check (an enemy piece could capture its king), a
\* move of that team is accepted only if it passes the bounds / shape /
\* occupancy / path pipeline and leaves no enemy piece able to capture the
\* king; every other move of that team is rejected with InvalidMove.
C24_MustResolveCheck ==
    [][(/\ obj = "HexBoard"
        /\ pc = "idle"
        /\ pc' = "returned"
        /\ contains_key(board, call'.from)
        /\ InCheck(board, board.pieces[call'.from].team)) =>
          LET piece == board.pieces[call'.from]
              legal == unchecked_can_move(board, piece, call'.from, call'.to).kind = "Ok"
              resolves == ~InCheck(teleport(board, call'.from, call'.to), piece.team)
          IN  IF legal /\ resolves
              THEN IsOk(result')
              ELSE MoveErrorTag(result') = "InvalidMove"]_vars

\* C25: in the code as written both checkers lists are empty in every state
\* reached through new, new_initialize, place and move_piece, so can_move
\* takes the unchecked branch and answers what unchecked_can_move answers for
\* the piece on `from`.
C25_CheckersStayEmpty ==
    [][/\ board.checkers = << <<>>, <<>> >>
       /\ board'.checkers = << <<>>, <<>> >>
       /\ (pc = "idle" /\ pc' = "returned" /\ contains_key(board, call'.from)) =>
             can_move(board, call'.from, call'.to)
                = unchecked_can_move(board, board.pieces[call'.from],
                                     call'.from, call'.to)]_vars

\* a move was accepted that leaves a king open to capture
C25_Witness ==
    /\ pc = "returned"
    /\ IsOk(result)
    /\ \E team \in Teams : InCheck(board, team)
    /\ board.checkers = << <<>>, <<>> >>

\* the cells of the board
BoardCells == { c \in ((-N)..N) \X ((-N)..N) : OnBoard(c) }

\* the team's king is attacked and no move the board accepts for that team
\* leaves it un-attacked
Checkmated(b, team) ==
    /\ InCheck(b, team)
    /\ \A from \in DOMAIN b.pieces :
          b.pieces[from].team = team =>
             \A to \in BoardCells :
                can_move(b, from, to).kind = "Ok" =>
                   InCheck(teleport(b, from, to), team)

\* C26: after every accepted Game::move_piece, finished is true exactly when
\* the new side to move is checkmated (its king is attacked and no legal move
\* of that side leaves the king un-attacked); finished is false in a new game.
C26_FinishedIffCheckmated ==
    /\ accepted = 0 => finished = FALSE
    /\ (obj = "Game" /\ pc = "returned" /\ IsOk(result)) =>
          (finished <=> Checkmated(board, turn))

\* C28: Game::move_piece never reads finished: for the same board and turn a
\* call (from, to) gives the same result, board and turn whether finished is
\* true or false, so a finished game still accepts the moves an unfinished
\* one accepts.
C28_FinishedIsNotConsulted ==
    [][(obj = "Game" /\ pc = "idle" /\ pc' = "returned") =>
          \A flag \in BOOLEAN :
             LET out == Game_move_piece([turn |-> turn, board |-> board, finished |-> flag],
                                        call'.from, call'.to)
             IN  /\ out.res = result'
                 /\ out.game.board = board'
                 /\ out.game.turn = turn']_vars

\* after two accepted moves, a move that a finished game with this board and
\* turn accepts as well
C28_Witness ==
    /\ obj = "Game"
    /\ pc = "idle"
    /\ accepted = 2
    /\ \E from \in Arena, to \in Arena :
          /\ IsOk(Game_move_piece([turn |-> turn, board |-> board, finished |-> TRUE],
                                  from, to).res)
          /\ IsOk(Game_move_piece([turn |-> turn, board |-> board, finished |-> FALSE],
                                  from, to).res)

\* the game after Game::new() and the accepted White move (0,-1)->(0,0)
AfterWhitePawnStep ==
    /\ obj = "Game"
    /\ accepted = 1
    /\ turn = Black
    /\ board = move_piece(new_initialize, new(0, -1), new(0, 0)).board

\* the call move_piece((0,1),(0,0)) made on that game
BlackPawnAnswers ==
    /\ AfterWhitePawnStep
    /\ pc = "idle"
    /\ pc' = "returned"
    /\ call'.from = new(0, 1)
    /\ call'.to = new(0, 0)

\* C29 (as the code has it): in Game::new(), after the accepted White move
\* (0,-1)->(0,0), the call move_piece((0,1),(0,0)) fails with
\* MoveError{InvalidMove(Black Pawn), from (0,1), to (0,0)}: it is Black's
\* turn and Black's pawn, and the pawn's forward cell holds White's pawn.
C29_BlockedPawnIsInvalidMove ==
    [][BlackPawnAnswers =>
          result' = Err(GameError_MoveError(
                        MoveError(InvalidMove(Piece("Pawn", Black)), new(0, 1), new(0, 0))))]_vars

\* C29 (as stated): in Game::new(), after the accepted White move
\* (0,-1)->(0,0), the call move_piece((0,1),(0,0)) fails with
\* TurnError{given: Black, real: Black}.
C29_BlockedPawnIsTurnError ==
    [][BlackPawnAnswers => result' = Err(TurnError(Black, Black))]_vars

\* the second call has returned an error and left the two pawns where they were
C29_Witness ==
    /\ AfterWhitePawnStep
    /\ pc = "returned"
    /\ call.from = new(0, 1)
    /\ call.to = new(0, 0)
    /\ IsErr(result)
    /\ board.pieces[new(0, 0)] = Piece("Pawn", White)
    /\ board.pieces[new(0, 1)] = Piece("Pawn", Black)

\* the scalars a coordinate is multiplied by
Scalars == (-MaxCoord)..MaxCoord

\* q + r + s() = 0
OnPlane(c) == c[1] + c[2] + s(c) = 0

\* C30: every Coord{q,r} in the bounded range has q + r + s() = 0, and the
\* results of Add, Sub, Mul<i32> and reflect_q have it again.
C30_CoordinateInvariant ==
    (obj = "Piece" /\ pc = "returned") =>
        /\ OnPlane(call.from)
        /\ OnPlane(call.to)
        /\ OnPlane(Add(call.from, call.to))
        /\ OnPlane(Sub(call.to, call.from))
        /\ \A k \in Scalars : OnPlane(MulScalar(call.from, k))
        /\ OnPlane(reflect_q(call.from))
        /\ OnPlane(reflect_q(call.to))

\* two coordinates off every axis whose sum, difference, multiples and
\* reflections are all different cells
C30_Witness ==
    /\ obj = "Piece"
    /\ pc = "returned"
    /\ call.from = new(2, 1)
    /\ call.to = new(-1, 3)
    /\ Add(call.from, call.to) = new(1, 4)
    /\ Sub(call.to, call.from) = new(-3, 2)
    /\ MulScalar(call.from, -MaxCoord) = new(-2 * MaxCoord, -MaxCoord)
    /\ reflect_q(call.from) = new(2, -3)
    /\ s(call.to) = -2

\* unchecked_can_move gets as far as calling collides(from, to)
ReachesCollides(b, piece, from, to) ==
    /\ in_bounds(to)
    /\ verify_move(piece, from, to).some
    /\ ~occupancy_rejects(b, piece, verify_move(piece, from, to), to)

\* HexBoard::move_piece(c, c) is being answered for an occupied cell c
NullMoveAnswered ==
    /\ obj = "HexBoard"
    /\ pc = "idle"
    /\ pc' # "idle"
    /\ call'.from = call'.to
    /\ contains_key(board, call'.from)

\* C31: a null move is rejected and never crashes: HexBoard::move_piece(c, c)
\* on an occupied cell c returns InvalidMove for every piece kind, leaves the
\* board as it was, and is answered before collides is called (collides would
\* divide by a step count of 0).
C31_NullMoveRejected ==
    [][NullMoveAnswered =>
          LET c == call'.from
              piece == board.pieces[c]
          IN  /\ result' = Err(MoveError(InvalidMove(piece), c, c))
              /\ pc' = "returned"
              /\ board' = board
              /\ ~ReachesCollides(board, piece, c, c)]_vars

\* a queen's null move, whose shape verify_queen accepts through verify_bishop,
\* has been rejected as InvalidMove
C31_Witness ==
    /\ obj = "HexBoard"
    /\ pc = "returned"
    /\ call.from = call.to
    /\ \E team \in Teams :
          /\ call.piece = {Piece("Queen", team)}
          /\ verify_move(Piece("Queen", team), call.from, call.to).some
          /\ result = Err(MoveError(InvalidMove(Piece("Queen", team)), call.from, call.to))

\* exactly one king of each team stands on the board
OneKingEach(b) == \A team \in Teams : Cardinality(Kings(b, team)) = 1

\* C32: a king is never captured: from a position holding exactly one king
\* per team, every accepted move_piece leaves exactly one White king and
\* exactly one Black king on the board.
C32_KingsSurvive ==
    [][(/\ pc = "idle"
        /\ pc' = "returned"
        /\ IsOk(result')
        /\ OneKingEach(board)) => OneKingEach(board')]_vars

\* the colour class of a cell: (q - r) mod 3
Colour(c) == (c[1] - c[2]) % 3

\* the cells of a team's bishops
Bishops(b, team) ==
    { c \in DOMAIN b.pieces : b.pieces[c] = [name |-> "Bishop", team |-> team] }

\* no two bishops of one team stand on cells of the same colour
BishopsApart(b) ==
    \A team \in Teams :
       \A c \in Bishops(b, team), d \in Bishops(b, team) :
          Colour(c) = Colour(d) => c = d

\* C33: bishops keep their cell colour: every accepted bishop move has
\* (q - r) mod 3 of the destination equal to that of the origin, and in every
\* state reachable from Game::new() each team has at most one bishop on each
\* of the three colour classes.
C33_BishopsKeepColour ==
    [][/\ BishopsApart(board)
       /\ BishopsApart(board')
       /\ (/\ pc = "idle"
           /\ pc' = "returned"
           /\ IsOk(result')
           /\ \E p \in call'.piece : p.name = "Bishop")
          => Colour(call'.to) = Colour(call'.from)]_vars

\* White's bishop has been moved from (0,-3) to (1,-2), the cell its pawn
\* left, and White's three bishops stand on three colours
C33_Witness ==
    /\ obj = "Game"
    /\ pc = "returned"
    /\ IsOk(result)
    /\ call.piece = {[name |-> "Bishop", team |-> White]}
    /\ call.from = new(0, -3)
    /\ call.to = new(1, -2)
    /\ Cardinality(Bishops(board, White)) = 3
    /\ Cardinality({Colour(c) : c \in Bishops(board, White)}) = 3

\* how far a move takes a piece of the team towards the other side: the
\* change of r for White, of s for Black
Advance(team, from, to) ==
    IF team = White THEN to[2] - from[2] ELSE s(to) - s(from)

\* C34: pawns never move backwards: every accepted move of a White pawn has
\* to.r - from.r in {0,1,2} and every accepted move of a Black pawn has
\* to.s - from.s in {0,1,2}, and the value 0 occurs only when a piece is
\* captured.
C34_PawnsNeverRetreat ==
    [][(/\ pc = "idle"
        /\ pc' = "returned"
        /\ IsOk(result')
        /\ \E p \in call'.piece : p.name = "Pawn")
       => LET d == Advance(The(call'.piece).team, call'.from, call'.to)
          IN  /\ d \in {0, 1, 2}
              /\ d = 0 => call'.target # {}]_vars

\* a Black pawn has captured sideways, keeping its s
C34_Witness ==
    /\ pc = "returned"
    /\ IsOk(result)
    /\ call.piece = {[name |-> "Pawn", team |-> Black]}
    /\ call.target # {}
    /\ Advance(Black, call.from, call.to) = 0
    /\ call.to[2] = call.from[2] - 1

\* a list of cells reflected across q
MirrorCells(list) == [i \in DOMAIN list |-> reflect_q(list[i])]

\* the board with every cell reflected across q and every team flipped
Mirror(b) ==
    [pieces |-> [c \in {reflect_q(x) : x \in DOMAIN b.pieces} |->
                    flip_team(b.pieces[reflect_q(c)])],
     checkers |-> << MirrorCells(b.checkers[TeamIndex(Black)]),
                     MirrorCells(b.checkers[TeamIndex(White)]) >>]

\* what a caller tells results apart by: Ok, panic, or the kind of error
Outcome(res) == <<res.kind, GameErrorTag(res), MoveErrorTag(res)>>

\* C35: legality is symmetric between the teams: can_move(from, to) on a
\* board and can_move(reflect_q(from), reflect_q(to)) on the board with every
\* cell reflected across q and every team flipped give the same outcome (both
\* Ok, or the same error kind), and a second game that starts as the mirror
\* image of the first and is given the mirrored move is afterwards its mirror
\* image again.
C35_MirrorSymmetry ==
    [][(obj = "Game" /\ pc = "idle" /\ pc' # "idle") =>
          \A mirrored \in {Mirror(board)} :
             LET from == call'.from
                 to == call'.to
                 rf == reflect_q(from)
                 rt == reflect_q(to)
             IN  /\ \A here \in {can_move(board, from, to)},
                       there \in {can_move(mirrored, rf, rt)} :
                       Outcome(there) = Outcome(here)
                 /\ \A other \in {Game_move_piece([turn |-> flip(turn),
                                                     board |-> mirrored,
                                                     finished |-> finished], rf, rt)} :
                       /\ Outcome(other.res) = Outcome(result')
                       /\ other.game.turn = flip(turn')
                       /\ other.game.finished = finished'
                       /\ other.game.board = Mirror(board')]_vars

\* in a game that is no longer its own mirror image, a move stopped by a
\* piece on its path, whose mirrored move the mirrored board stops the same way
C35_Witness ==
    /\ obj = "Game"
    /\ pc = "returned"
    /\ accepted = 2
    /\ MoveErrorTag(result) = "CollisionOnPath"
    /\ Mirror(board) # board
    /\ reflect_q(call.to) # call.to
    /\ MoveErrorTag(can_move(Mirror(board), reflect_q(call.from), reflect_q(call.to)))
          = "CollisionOnPath"

\* the piece a sprite entity was spawned for: the one setup found on the
\* entity's cell of the starting position
Drawn(entity) == Game_new.board.pieces[entity]

\* C36: in the graphical front-end, after setup and after any sequence of
\* hover and click events, the key set of piece_sprites is the set of occupied
\* cells of game.board and each cell's sprite is the one spawned for the piece
\* standing there, so the unwrap on piece_sprites.remove(&from) never fails
\* and a captured piece's sprite is gone from the map.
C36_SpritesFollowBoard ==
    (obj = "App" /\ pc # "startup") =>
        /\ pc # "panicked"
        /\ DOMAIN piece_sprites = DOMAIN board.pieces
        /\ \A c \in DOMAIN piece_sprites : Drawn(piece_sprites[c]) = board.pieces[c]
        /\ \A c \in DOMAIN piece_sprites, d \in DOMAIN piece_sprites :
              piece_sprites[c] = piece_sprites[d] => c = d

\* White's pawn has taken Black's pawn on (1,0): 35 pieces, 35 sprites, and
\* the sprite on (1,0) is the one spawned on (0,-1)
C36_Witness ==
    /\ obj = "App"
    /\ pc = "idle"
    /\ accepted = 3
    /\ Count(board) = 35
    /\ Cardinality(DOMAIN piece_sprites) = 35
    /\ piece_sprites[new(1, 0)] = new(0, -1)
    /\ new(1, 1) \notin DOMAIN piece_sprites

\* the moves submitted by the event just handled
JustSubmitted == { result'[i] : i \in (DOMAIN result') \ (DOMAIN result) }

\* C37: in the graphical front-end, whenever select.selected is Some(c), cell
\* c holds a piece of the side to move; an accepted move resets it to None, a
\* rejected move keeps it, and no move submitted by piece_click_system fails
\* with PieceError or TurnError.
C37_SelectionIsMovable ==
    [][obj = "App" =>
          /\ select'.selected.some =>
                /\ contains_key(board', select'.selected.c)
                /\ board'.pieces[select'.selected.c].team = turn'
          /\ (pc = "events" /\ call.events # <<>>) =>
                \A sent \in JustSubmitted :
                   /\ GameErrorTag(sent.res) \notin {"PieceError", "TurnError"}
                   /\ sent.from = select.selected.c
                   /\ IsOk(sent.res) => select'.selected = NoCoord
                   /\ IsErr(sent.res) => select'.selected = select.selected]_vars

\* a click on a cell the selected pawn cannot reach has been answered with a
\* MoveError and the pawn is still selected
C37_Witness ==
    /\ obj = "App"
    /\ pc = "events"
    /\ accepted = 1
    /\ Len(result) = 1
    /\ GameErrorTag(result[1].res) = "MoveError"
    /\ select.selected = SomeCoord(result[1].from)
    /\ board.pieces[result[1].from] = Piece("Pawn", Black)

\* C38: the console loop never aborts on an input line: whatever the number
\* of "->" separated parts, the number of "," separated fields in each part
\* and whether the fields are integers, the turn of the loop reports a parse
\* or move error and continues, or applies the move; unreachable!() and the
\* indexing f[1] / t[1] are never reached with too few elements.
C38_ConsoleNeverAborts ==
    (obj = "Console" /\ call # NoCall) =>
        /\ pc # "panicked"
        /\ result # Panic
        /\ IsOk(parse_move(call.line)) =>
              /\ Len(parse_move(call.line).value) = 2
              /\ \A i \in 1..2 : Len(parse_move(call.line).value[i]) = 2

====
